---- MODULE Spec2Model ----
(***************************************************************************)
(* Orchestration core of haunted: the per-issue workflow engine            *)
(* (core/workflow.py) and the dispatch daemon (daemon/service.py) with the *)
(* parts of the git manager and the agent wrapper they drive.              *)
(*                                                                         *)
(* SpecWF  : one call of WorkflowEngine.process_issue on an arbitrary      *)
(*           issue snapshot, the agent contract stubbed at the boundary    *)
(*           the stage handlers await (result, exception, rate limit).     *)
(* Spec    : the daemon: scanner, W workers, store, queue, active-issue    *)
(*           registry, process working directory and worktrees.            *)
(***************************************************************************)
EXTENDS Integers, Sequences, FiniteSets, TLC

\* ------------------------------------------------------------------ data

\* WorkflowEngine.max_iterations
max_iterations == 3

\* Largest iteration_count an entering snapshot carries in SpecWF.
MaxEntryCount == 4

\* The snapshot has no "iteration_count" key (workflow.py:72).
NoCount == -1

\* WorkflowStage values (models/base.py is not part of the sources).
WorkflowStage == {"plan", "implement", "unit_test", "fix_issues",
                  "integration_test", "diagnose", "done"}

\* IssueStatus values.
IssueStatus == {"open", "in_progress", "blocked", "closed"}

\* A stage string that WorkflowStage(...) rejects with ValueError.
BadStage == "bogus"

\* Keys of WorkflowEngine.stage_handlers.
stage_handlers == {"plan", "implement", "unit_test", "fix_issues",
                   "integration_test", "diagnose"}

\* What a stage handler sees when it awaits the agent contract: a result,
\* a result whose text reports failing tests, an exception, or the
\* rate-limit condition (ClaudeRateLimitError).
HandlerOutcomes == {"ok", "ok_tests_failed", "fail", "rate_limit"}

\* The awaited wrapper method returned a value to the handler.
ResultReturned(outcome) == outcome \in {"ok", "ok_tests_failed"}

\* ------------------------------------------------- stage handlers (pure)

\* A handler that returned: the next stage and the snapshot it left.
Returned(next, issue) == [next |-> next, issue |-> issue, raised |-> FALSE]

\* A handler that re-raised ClaudeRateLimitError: the snapshot is as it was.
Raised(issue) == [next |-> issue.workflow_stage, issue |-> issue, raised |-> TRUE]

_plan_stage(issue, outcome) ==
    CASE ResultReturned(outcome) ->
            Returned("implement", [issue EXCEPT !.status = "in_progress"])
      [] outcome = "rate_limit" -> Raised(issue)
      [] OTHER -> Returned("diagnose", issue)

\* Mutant: implement handles the rate-limit condition as any other exception.
_implement_stage_swallow(issue, outcome) ==
    CASE ResultReturned(outcome) -> Returned("unit_test", issue)
      [] OTHER -> Returned("diagnose", issue)

_implement_stage(issue, outcome) ==
    CASE ResultReturned(outcome) -> Returned("unit_test", issue)
      [] outcome = "rate_limit" -> Raised(issue)
      [] OTHER -> Returned("diagnose", issue)

\* test_passed is the literal True (workflow.py:251).
test_passed == TRUE

_unit_test_stage(issue, outcome) ==
    CASE ResultReturned(outcome) ->
            IF test_passed THEN Returned("integration_test", issue)
                           ELSE Returned("fix_issues", issue)
      [] outcome = "rate_limit" -> Raised(issue)
      [] OTHER -> Returned("diagnose", issue)

\* Mutant: a successful fix goes on to the integration test.
_fix_issues_stage_skip_retest(issue, outcome) ==
    CASE ResultReturned(outcome) -> Returned("integration_test", issue)
      [] outcome = "rate_limit" -> Raised(issue)
      [] OTHER -> Returned("diagnose", issue)

_fix_issues_stage(issue, outcome) ==
    CASE ResultReturned(outcome) -> Returned("unit_test", issue)
      [] outcome = "rate_limit" -> Raised(issue)
      [] OTHER -> Returned("diagnose", issue)

_integration_test_stage(issue, outcome) ==
    CASE ResultReturned(outcome) -> Returned("done", [issue EXCEPT !.status = "closed"])
      [] outcome = "rate_limit" -> Raised(issue)
      [] OTHER -> Returned("diagnose", issue)

\* Mutant: a diagnose that fails gives the issue up as closed.
_diagnose_stage_closes(issue, outcome) ==
    CASE ResultReturned(outcome) -> Returned("plan", issue)
      [] outcome = "rate_limit" -> Raised(issue)
      [] OTHER -> Returned("done", [issue EXCEPT !.status = "closed"])

\* Mutant: a successful diagnose ends the workflow instead of restarting it.
_diagnose_stage_no_restart(issue, outcome) ==
    CASE ResultReturned(outcome) -> Returned("done", issue)
      [] outcome = "rate_limit" -> Raised(issue)
      [] OTHER -> Returned("done", [issue EXCEPT !.status = "blocked"])

_diagnose_stage(issue, outcome) ==
    CASE ResultReturned(outcome) -> Returned("plan", issue)
      [] outcome = "rate_limit" -> Raised(issue)
      [] OTHER -> Returned("done", [issue EXCEPT !.status = "blocked"])

\* handler = self.stage_handlers.get(current_stage); await handler(issue_dict)
handler(stage, issue, outcome) ==
    CASE stage = "plan" -> _plan_stage(issue, outcome)
      [] stage = "implement" -> _implement_stage(issue, outcome)
      [] stage = "unit_test" -> _unit_test_stage(issue, outcome)
      [] stage = "fix_issues" -> _fix_issues_stage(issue, outcome)
      [] stage = "integration_test" -> _integration_test_stage(issue, outcome)
      [] OTHER -> _diagnose_stage(issue, outcome)

\* ------------------------------------------- process_issue, step by step

\* Mutant: the unavailable branch also initialises and counts an iteration.
Unavailable_counted(issue) ==
    [issue EXCEPT !.status = "blocked", !.workflow_stage = "done",
                  !.iteration_count = IF @ = NoCount THEN 0 ELSE @ + 1]

\* if not await check_claude_availability(): blocked / done, return.
Unavailable(issue) ==
    [issue EXCEPT !.status = "blocked", !.workflow_stage = "done"]

\* if "iteration_count" not in issue_dict: issue_dict["iteration_count"] = 0
InitIterationCount(issue) ==
    IF issue.iteration_count = NoCount
        THEN [issue EXCEPT !.iteration_count = 0]
        ELSE issue

\* Mutant: the limit check is off by one (> for >=).
IterationLimitReached_strict(issue) == issue.iteration_count > max_iterations

\* if issue_dict["iteration_count"] >= self.max_iterations
IterationLimitReached(issue) == issue.iteration_count >= max_iterations

\* Mutant: the forced stop sets the stage and forgets the status.
ForceBlocked_stage_only(issue) == [issue EXCEPT !.workflow_stage = "done"]

\* The iteration-limit branch and the except-Exception branch both force
\* blocked / done.
ForceBlocked(issue) ==
    [issue EXCEPT !.status = "blocked", !.workflow_stage = "done"]

\* WorkflowStage(stage_value) succeeds and the stage has a handler.
HasHandler(issue) == issue.workflow_stage \in stage_handlers

\* The observers process_issue is run with: self.on_stage_change unset, a
\* callable that returns, a callable that raises on every call.
Observers == {"absent", "returns", "raises"}

\* Mutant: the observer is called without the try / except around it.
on_stage_change_unguarded(observer) ==
    [called |-> observer # "absent", propagates |-> observer = "raises"]

\* if self.on_stage_change: try: self.on_stage_change(...) except Exception:
\* pass -- whether the call is made, and whether an exception leaves it.
on_stage_change(observer) ==
    [called |-> observer # "absent", propagates |-> FALSE]

\* Mutant: a restart from diagnose does not count as an iteration.
ApplyTransition_free_restart(result) ==
    [result.issue EXCEPT !.workflow_stage = result.next,
                         !.iteration_count =
                             IF result.next = "plan" THEN @ ELSE @ + 1]

\* issue_dict["workflow_stage"] = next_stage.value; iteration_count += 1
ApplyTransition(result) ==
    [result.issue EXCEPT !.workflow_stage = result.next,
                         !.iteration_count = @ + 1]

\* ------------------------------------------------------------- variables

VARIABLES
    \* one call of process_issue (SpecWF)
    wf_pc,       \* where the process_issue call is
    wf_issue,    \* issue_dict, mutated in place
    wf_entry,    \* the snapshot as it was given (history)
    wf_before,   \* the snapshot when the last handler was entered (history)
    wf_hist,     \* handlers awaited so far: <<stage, outcome>> (history)
    wf_applied,  \* transitions applied by lines 112-114 (history)
    wf_db,       \* the records the engine wrote with self.db.update_issue
    wf_observer, \* WorkflowEngine.on_stage_change, by its behaviour
    \* the daemon (Spec)
    running,        \* HauntedDaemon.running
    store,          \* the issue table behind db_manager
    comments,       \* the comments added per issue, by kind
    issue_queue,    \* HauntedDaemon.issue_queue
    active_issues,  \* HauntedDaemon.active_issues: issue id -> worker task
    wk,             \* each worker task: its position and its locals
    cwd,            \* the process working directory (os.getcwd())
    worktrees,      \* branch -> number of git worktrees registered for it
    head,           \* branch checked out in the primary working copy
    branches,       \* the issue branches that exist (repo.heads)
    conflicted,     \* the primary working copy has unmerged paths
    unlocked_ops,   \* git mutations that ran outside GitManager._git_lock
    cancelled,      \* _wait_for_shutdown has cancelled the tasks
    throttled,      \* a rate-limit resume time was announced and has not passed
    faults,         \* environment failures that can still happen
    scanner         \* the scanner task: alive, backed_off after a failed
                    \* fetch, recovered once a later pass has queued, ended

wf_vars == <<wf_pc, wf_issue, wf_entry, wf_before, wf_hist, wf_applied, wf_db,
             wf_observer>>

git_vars == <<worktrees, head, branches, conflicted, unlocked_ops>>

daemon_vars == <<running, store, comments, issue_queue, active_issues, wk,
                 cwd, git_vars, throttled, faults, cancelled, scanner>>

vars == <<wf_vars, daemon_vars>>

\* ------------------------------------------------------ daemon: data

\* config.ai.max_concurrent_issues: the number of worker tasks.
NumWorkers == 2

\* Issues in the store.
NumIssues == 3

\* The scanner stops adding once the queue holds this many snapshots.
MaxQueue == 3

\* Failures of the environment in one behaviour: `git worktree add` failing,
\* the claude CLI missing, a CLI run that fails, times out or is throttled,
\* a merge that conflicts, a fetch of the open issues that raises.
MaxFaults == 1

Workers == 1 .. NumWorkers

IssueIds == 1 .. NumIssues

\* Python's None for a worker local that is not set.
None == -1

\* config.project_root, the directory the daemon is started in.
project_root == 0

\* The trunk branch "main".
main == 0

\* issue_model.branch_name: one branch per issue, named after its id.
branch_name(issue_id) == issue_id

\* GitManager.get_worktree_path: one directory per branch.
get_worktree_path(branch) == branch

\* The stage an issue is created with, or is moved to by `issue update
\* --stage` before the daemon runs.
InitialStages == {"plan", "integration_test"}

\* How one run of the claude CLI can end.
AgentCliOutcomes == {"ok", "error", "rate_limit"}

\* The wrapper raises ClaudeRateLimitError for a throttled CLI run.
ClaudeRateLimitError(cli) == cli = "rate_limit"

\* analyze_and_plan and its five siblings: the CLI's result, or, for any
\* exception of the query, an {"error": ...} dictionary; both are returned.
analyze_and_plan(cli) == "ok"

\* What the awaiting stage handler sees of a wrapper call.
agent_call(cli) ==
    IF ClaudeRateLimitError(cli) THEN "rate_limit" ELSE analyze_and_plan(cli)

\* HauntedDaemon keeps no cooldown deadline: no field of __init__ and no
\* assignment in service.py holds one.
cooldown_deadline == None

\* The local `issue` of a worker task that has dequeued nothing.
NoIssue ==
    [id |-> None, status |-> "none", workflow_stage |-> "none",
     iteration_count |-> 0]

\* A worker task that waits in issue_queue.get().
IdleWorker ==
    [pc |-> "idle", issue |-> NoIssue, branch_name |-> None, worktree_path |-> None,
     prev_cwd |-> None, agent_cwd |-> None, merge |-> "none", err |-> "none",
     last_cli |-> "none"]

\* A worker task that has ended: its loop saw running = False, or it was
\* cancelled (err says which).
StoppedWorker(how) == [IdleWorker EXCEPT !.pc = "stopped", !.err = how]

\* The dictionary the scanner queues for a store row.
Snapshot(issue_id) ==
    [id |-> issue_id,
     status |-> store[issue_id].status,
     workflow_stage |-> store[issue_id].workflow_stage,
     iteration_count |-> store[issue_id].iteration_count]

RECURSIVE ascending(_)
\* The ids of S as a sequence in creation order.
ascending(S) ==
    IF S = {} THEN <<>>
    ELSE LET m == CHOOSE x \in S : \A y \in S : x <= y
         IN <<m>> \o ascending(S \ {m})

\* db_manager.get_open_issues_by_priority(): the open issues, equal
\* priorities, in creation order.
get_open_issues_by_priority ==
    ascending({i \in DOMAIN store : store[i].status = "open"})

\* The while loop of process_issue from its head to its next await: the
\* agent call of the stage's handler, or, when the stage is done or the run
\* is forced to stop, the final update of lines 126-150 / 161-184.
LoopHead(issue) ==
    IF issue.workflow_stage = "done"
        THEN [pc |-> "persist", issue |-> issue, final_update |-> TRUE]
    ELSE IF IterationLimitReached(issue) \/ ~HasHandler(issue)
        THEN [pc |-> "persist", issue |-> ForceBlocked(issue), final_update |-> TRUE]
    ELSE [pc |-> "agent", issue |-> issue, final_update |-> FALSE]

\* process_issue from its first line to its first await.
process_issue(issue, available) ==
    IF ~available
        THEN [pc |-> "returned", issue |-> Unavailable(issue), final_update |-> FALSE]
    ELSE IF InitIterationCount(issue).workflow_stage = "done"
        THEN [pc |-> "returned", issue |-> InitIterationCount(issue),
              final_update |-> FALSE]
    ELSE LoopHead(InitIterationCount(issue))

\* self.db.update_issue(issue_obj): the engine writes the whole record.
EngineUpdate(st, issue) ==
    [st EXCEPT ![issue.id] = [status |-> issue.status,
                              workflow_stage |-> issue.workflow_stage,
                              iteration_count |-> issue.iteration_count]]

\* finally: if prev_cwd: os.chdir(prev_cwd), once process_issue has ended.
RestoredCwd(w) == IF wk[w].prev_cwd # None THEN wk[w].prev_cwd ELSE cwd

\* ------------------------------------------------- daemon: GitManager

\* Mutant: merge_branch runs without taking the lock.
_git_lock_not_for_merge ==
    [create_branch |-> TRUE, checkout_branch |-> TRUE, worktree_add |-> TRUE,
     worktree_remove |-> TRUE, merge |-> FALSE, delete_head |-> TRUE,
     resolution_commit |-> FALSE]

\* The mutations of the repository the daemon can make, and whether the
\* code makes them inside `with self._git_lock()`. The commit that
\* concludes an agent-made conflict resolution is made by service.py
\* directly on repo.git / repo.index.
_git_lock ==
    [create_branch |-> TRUE, checkout_branch |-> TRUE, worktree_add |-> TRUE,
     worktree_remove |-> TRUE, merge |-> TRUE, delete_head |-> TRUE,
     resolution_commit |-> FALSE]

\* The operations of ops that ran without the lock.
Unlocked(ops) == {o \in ops : ~_git_lock[o]}

\* GitManager._worktree_exists(path)
_worktree_exists(path) == worktrees[path] > 0

\* Mutant: the worktree is added without looking for an existing one.
ensure_worktree_for_branch_no_lookup(branch, add_ok) ==
    [raised |-> ~add_ok,
     path |-> get_worktree_path(branch),
     branches |-> branches \cup {branch},
     worktrees |-> IF add_ok THEN [worktrees EXCEPT ![branch] = @ + 1]
                             ELSE worktrees,
     ops |-> {"create_branch", "worktree_add"}]

\* GitManager.ensure_worktree_for_branch: the branch is created if it is
\* missing; `git worktree add` runs only if no worktree is registered at
\* the branch's path; its failure (add_ok false) is raised.
ensure_worktree_for_branch(branch, add_ok) ==
    LET exists == _worktree_exists(get_worktree_path(branch)) IN
    [raised |-> ~exists /\ ~add_ok,
     path |-> get_worktree_path(branch),
     branches |-> branches \cup {branch},
     worktrees |-> IF ~exists /\ add_ok
                      THEN [worktrees EXCEPT ![branch] = @ + 1]
                      ELSE worktrees,
     ops |-> (IF branch \in branches THEN {} ELSE {"create_branch"})
             \cup (IF exists THEN {} ELSE {"worktree_add"})]

\* `git worktree add --checkout path branch` refuses a branch that is
\* checked out in the primary working copy.
AddRefused(branch) ==
    /\ head = branch
    /\ ~_worktree_exists(get_worktree_path(branch))

\* GitManager.remove_worktree(branch_name=..., force=True)
remove_worktree(branch) == [worktrees EXCEPT ![branch] = 0]

\* Mutant: a conflicting merge is aborted and the source branch deleted.
merge_branch_tidy(source, target, clean) ==
    [result |-> IF clean THEN "merged" ELSE "conflict",
     merge_done |-> clean,
     head |-> target,
     branches |-> branches \ {source},
     conflicted |-> FALSE,
     ops |-> {"checkout_branch", "merge", "delete_head"}]

\* GitManager.merge_branch(source, target, delete_source=True). The
\* checkout of the target fails on an index with unmerged paths; `git
\* merge` fails for a missing source or, with clean false, stops in the
\* conflicted state; delete_head fails for a branch that is checked out in
\* a worktree. Every GitCommandError makes the result False; merge_done
\* says whether `git merge` had made the merge commit by then.
merge_branch(source, target, clean) ==
    IF conflicted
        THEN [result |-> "failed", merge_done |-> FALSE, head |-> head,
              branches |-> branches, conflicted |-> TRUE, ops |-> {}]
    ELSE IF source \notin branches
        THEN [result |-> "failed", merge_done |-> FALSE, head |-> target,
              branches |-> branches, conflicted |-> FALSE,
              ops |-> {"checkout_branch"}]
    ELSE IF ~clean
        THEN [result |-> "conflict", merge_done |-> FALSE, head |-> target,
              branches |-> branches, conflicted |-> TRUE,
              ops |-> {"checkout_branch", "merge"}]
    ELSE IF _worktree_exists(get_worktree_path(source))
        THEN [result |-> "failed", merge_done |-> TRUE, head |-> target,
              branches |-> branches, conflicted |-> FALSE,
              ops |-> {"checkout_branch", "merge"}]
    ELSE [result |-> "merged", merge_done |-> TRUE, head |-> target,
          branches |-> branches \ {source}, conflicted |-> FALSE,
          ops |-> {"checkout_branch", "merge", "delete_head"}]

\* GitManager.has_conflicts()
has_conflicts == conflicted

\* GitManager.auto_resolve_conflicts: every conflicted path is checked out
\* from the incoming side, added and committed, under the lock.
auto_resolve_conflicts == [conflicted |-> FALSE, ops |-> {"merge"}]

\* ClaudeCodeWrapper(project_root=...) in the conflict branch of
\* _process_issue: __init__ takes action_timeout only, so the call raises
\* TypeError before the agent is asked and before the resolution commit.
resolve_merge_conflicts == [raised |-> TRUE, ops |-> {}]

\* The daemon after __init__ and start() over the issue table s: running,
\* nothing queued or active, every worker waiting on the queue.
DaemonStart(s) ==
    /\ running = TRUE
    /\ store = s
    /\ comments = [i \in IssueIds |-> {}]
    /\ issue_queue = <<>>
    /\ active_issues = <<>>
    /\ wk = [w \in Workers |-> IdleWorker]
    /\ cwd = project_root
    /\ worktrees = [b \in IssueIds |-> 0]
    /\ head = main
    /\ branches = {}
    /\ conflicted = FALSE
    /\ unlocked_ops = {}
    /\ cancelled = FALSE
    /\ throttled = FALSE
    /\ faults = MaxFaults
    /\ scanner = "alive"

\* An issue as `issue create` stores it.
NewIssue == [status |-> "open", workflow_stage |-> "plan", iteration_count |-> 0]

Snapshots ==
    [id : {1},
     status : IssueStatus,
     workflow_stage : WorkflowStage \cup {BadStage},
     iteration_count : {NoCount} \cup (0 .. MaxEntryCount)]

InitWF ==
    /\ wf_issue \in Snapshots
    /\ wf_entry = wf_issue
    /\ wf_before = wf_issue
    /\ wf_pc = "start"
    /\ wf_hist = <<>>
    /\ wf_applied = 0
    /\ wf_db = <<>>
    /\ wf_observer \in Observers
    /\ DaemonStart([i \in IssueIds |-> NewIssue])

\* lines 63-68
wf_unavailable ==
    /\ wf_pc = "start"
    /\ wf_issue' = Unavailable(wf_issue)
    /\ wf_pc' = "returned"
    /\ UNCHANGED <<wf_entry, wf_before, wf_hist, wf_applied, wf_db, wf_observer>>
    /\ UNCHANGED daemon_vars

\* lines 72-78: already at done, returned as it is
wf_already_done ==
    /\ wf_pc = "start"
    /\ wf_issue.workflow_stage = "done"
    /\ wf_issue' = InitIterationCount(wf_issue)
    /\ wf_pc' = "returned"
    /\ UNCHANGED <<wf_entry, wf_before, wf_hist, wf_applied, wf_db, wf_observer>>
    /\ UNCHANGED daemon_vars

\* lines 72-80: enter the while loop
wf_enter_loop ==
    /\ wf_pc = "start"
    /\ wf_issue.workflow_stage # "done"
    /\ wf_issue' = InitIterationCount(wf_issue)
    /\ wf_pc' = "loop"
    /\ UNCHANGED <<wf_entry, wf_before, wf_hist, wf_applied, wf_db, wf_observer>>
    /\ UNCHANGED daemon_vars

\* lines 82-86
wf_iteration_limit ==
    /\ wf_pc = "loop"
    /\ wf_issue.workflow_stage # "done"
    /\ IterationLimitReached(wf_issue)
    /\ wf_issue' = ForceBlocked(wf_issue)
    /\ wf_pc' = "final"
    /\ UNCHANGED <<wf_entry, wf_before, wf_hist, wf_applied, wf_db, wf_observer>>
    /\ UNCHANGED daemon_vars

\* lines 93-100 raise ValueError, lines 155-159 catch it
wf_unknown_stage ==
    /\ wf_pc = "loop"
    /\ wf_issue.workflow_stage # "done"
    /\ ~IterationLimitReached(wf_issue)
    /\ ~HasHandler(wf_issue)
    /\ wf_issue' = ForceBlocked(wf_issue)
    /\ wf_pc' = "final"
    /\ UNCHANGED <<wf_entry, wf_before, wf_hist, wf_applied, wf_db, wf_observer>>
    /\ UNCHANGED daemon_vars

\* lines 109-124: one handler awaited; its result applied, or the
\* rate-limit condition re-raised by lines 152-154
wf_run_stage ==
    /\ wf_pc = "loop"
    /\ wf_issue.workflow_stage # "done"
    /\ ~IterationLimitReached(wf_issue)
    /\ HasHandler(wf_issue)
    /\ IF on_stage_change(wf_observer).propagates
          THEN \* lines 155-159: the except-Exception branch of process_issue
               /\ wf_issue' = ForceBlocked(wf_issue)
               /\ wf_pc' = "final"
               /\ UNCHANGED <<wf_before, wf_hist, wf_applied>>
          ELSE \E outcome \in HandlerOutcomes :
               LET r == handler(wf_issue.workflow_stage, wf_issue, outcome) IN
               /\ wf_before' = wf_issue
               /\ wf_hist' = Append(wf_hist, <<wf_issue.workflow_stage, outcome>>)
               /\ IF r.raised
                     THEN /\ wf_issue' = r.issue
                          /\ wf_pc' = "raised"
                          /\ wf_applied' = wf_applied
                     ELSE /\ wf_issue' = ApplyTransition(r)
                          /\ wf_pc' = "loop"
                          /\ wf_applied' = wf_applied + 1
    /\ UNCHANGED <<wf_entry, wf_db, wf_observer>>
    /\ UNCHANGED daemon_vars

\* line 80: the loop condition fails
wf_loop_exit ==
    /\ wf_pc = "loop"
    /\ wf_issue.workflow_stage = "done"
    /\ wf_pc' = "final"
    /\ UNCHANGED <<wf_issue, wf_entry, wf_before, wf_hist, wf_applied, wf_db,
                   wf_observer>>
    /\ UNCHANGED daemon_vars

\* lines 126-150 and 161-184: self.db.update_issue(...), errors swallowed
wf_final_update ==
    /\ wf_pc = "final"
    /\ \E db_ok \in BOOLEAN :
        wf_db' = IF db_ok THEN Append(wf_db, wf_issue) ELSE wf_db
    /\ wf_pc' = "returned"
    /\ UNCHANGED <<wf_issue, wf_entry, wf_before, wf_hist, wf_applied,
                   wf_observer>>
    /\ UNCHANGED daemon_vars

NextWF ==
    \/ wf_unavailable
    \/ wf_already_done
    \/ wf_enter_loop
    \/ wf_iteration_limit
    \/ wf_unknown_stage
    \/ wf_run_stage
    \/ wf_loop_exit
    \/ wf_final_update

SpecWF == InitWF /\ [][NextWF]_vars

\* ------------------------------------------ SpecWF: claims C1 .. C5

\* iteration_count as the engine reads it once line 73 has run.
Count(issue) == IF issue.iteration_count = NoCount THEN 0 ELSE issue.iteration_count

Terminal(issue) == issue.status \in {"closed", "blocked"}

\* Every handler awaited so far got outcome o for the stages in S.
AllOutcomes(S, o) ==
    \A k \in 1 .. Len(wf_hist) : wf_hist[k][1] \in S => wf_hist[k][2] = o

NoRateLimit == \A k \in 1 .. Len(wf_hist) : wf_hist[k][2] # "rate_limit"

\* C1 as stated: whenever process_issue returns normally, for any snapshot
\* it was given, the returned status is closed or blocked if and only if
\* the returned workflow_stage is done.
C1_AnySnapshot ==
    wf_pc = "returned" =>
        (Terminal(wf_issue) <=> wf_issue.workflow_stage = "done")

\* C1 amended: the equivalence holds on return for every snapshot except
\* one that entered already at workflow_stage = done with a status other
\* than closed or blocked (lines 76-78 return such a snapshot unchanged).
C1_ReturnedTerminal ==
    (/\ wf_pc = "returned"
     /\ ~(wf_entry.workflow_stage = "done" /\ ~Terminal(wf_entry)))
        => (Terminal(wf_issue) <=> wf_issue.workflow_stage = "done")

\* A run that entered before done, awaited handlers and returned.
C1_Witness ==
    /\ wf_pc = "returned"
    /\ wf_entry.workflow_stage = "plan"
    /\ wf_entry.status = "open"
    /\ wf_applied >= 2

\* C2: for a snapshot entering with iteration_count <= max_iterations, the
\* count on return is >= the entry count, exceeds it by exactly the number
\* of handler results applied as transitions, and is <= max_iterations.
C2_IterationAccounting ==
    (wf_pc = "returned" /\ Count(wf_entry) <= max_iterations) =>
        /\ Count(wf_issue) >= Count(wf_entry)
        /\ Count(wf_issue) = Count(wf_entry) + wf_applied
        /\ Count(wf_issue) <= max_iterations

\* A run that entered with a count of 1 and applied two transitions.
C2_Witness ==
    /\ wf_pc = "returned"
    /\ wf_entry.iteration_count = 1
    /\ wf_applied = 2
    /\ wf_issue.iteration_count = max_iterations

\* C3 as stated: entering at plan with iteration_count 0, the agent
\* available and every awaited agent call succeeding, the call returns
\* status closed, workflow_stage done and iteration_count 4.
C3_HappyPath ==
    (/\ wf_pc = "returned"
     /\ wf_entry.workflow_stage = "plan"
     /\ wf_entry.iteration_count = 0
     /\ wf_hist # <<>>
     /\ AllOutcomes(stage_handlers, "ok"))
        => /\ wf_issue.status = "closed"
           /\ wf_issue.workflow_stage = "done"
           /\ wf_issue.iteration_count = 4

\* C4: entering at plan with iteration_count 0, every plan attempt failing
\* and every diagnose succeeding, the run is the cycle plan, diagnose,
\* plan, ... and returns blocked / done with iteration_count equal to
\* max_iterations.
C4_FailureLoop ==
    (/\ wf_pc = "returned"
     /\ wf_entry.workflow_stage = "plan"
     /\ wf_entry.iteration_count = 0
     /\ wf_hist # <<>>
     /\ NoRateLimit
     /\ AllOutcomes({"plan"}, "fail")
     /\ AllOutcomes({"diagnose"}, "ok"))
        => /\ wf_issue.status = "blocked"
           /\ wf_issue.workflow_stage = "done"
           /\ wf_issue.iteration_count = max_iterations
           /\ Len(wf_hist) = max_iterations
           /\ \A k \in 1 .. Len(wf_hist) :
                wf_hist[k][1] = IF k % 2 = 1 THEN "plan" ELSE "diagnose"

\* The failure loop ran to the cutoff.
C4_Witness ==
    /\ wf_pc = "returned"
    /\ wf_entry.workflow_stage = "plan"
    /\ wf_entry.iteration_count = 0
    /\ wf_hist = <<(<<"plan", "fail">>), (<<"diagnose", "ok">>), (<<"plan", "fail">>)>>

\* C5: when the agent signals the rate-limit condition in the handler of a
\* stage, process_issue raises it to its caller, and workflow_stage,
\* status and iteration_count are what they were when the stage was
\* entered: no transition is applied and the count is not incremented.
C5_RateLimitUntouched ==
    (wf_hist # <<>> /\ wf_hist[Len(wf_hist)][2] = "rate_limit") =>
        /\ wf_pc = "raised"
        /\ wf_issue.workflow_stage = wf_before.workflow_stage
        /\ wf_issue.workflow_stage = wf_hist[Len(wf_hist)][1]
        /\ wf_issue.status = wf_before.status
        /\ wf_issue.iteration_count = wf_before.iteration_count
        /\ Count(wf_issue) = Count(wf_entry) + wf_applied
        /\ wf_applied = Len(wf_hist) - 1

\* The rate limit struck at implement, after plan had been applied.
C5_Witness ==
    /\ wf_pc = "raised"
    /\ wf_hist = <<(<<"plan", "ok">>), (<<"implement", "rate_limit">>)>>
    /\ wf_issue.workflow_stage = "implement"
    /\ wf_issue.iteration_count = 1

\* C19: if the availability check fails at the start of process_issue, the
\* call returns blocked / done, no stage handler or agent stage call has
\* run, and iteration_count is what it was (absent if it was absent).
C19_UnavailableBlocks ==
    [][wf_unavailable =>
          /\ wf_pc' = "returned"
          /\ wf_issue'.status = "blocked"
          /\ wf_issue'.workflow_stage = "done"
          /\ wf_issue'.iteration_count = wf_entry.iteration_count
          /\ wf_hist' = <<>>
          /\ wf_applied' = 0]_vars

C19_Witness ==
    /\ wf_pc = "returned"
    /\ wf_hist = <<>>
    /\ wf_entry.workflow_stage = "plan"
    /\ wf_entry.status = "open"
    /\ wf_entry.iteration_count = 0
    /\ wf_issue.status = "blocked"
    /\ wf_issue.workflow_stage = "done"
    /\ wf_issue.iteration_count = 0

\* C20 as stated: process_issue performs no read or write on the store on
\* any path; only the calling worker persists the result.
C20_NoStoreIO == wf_db = <<>>

\* --------------------------------------- SpecWF: claims C22 .. C25

\* The step awaited one stage handler.
HandlerAwaited == Len(wf_hist') = Len(wf_hist) + 1

\* The outcome the handler awaited in this step met.
LastOutcome == wf_hist'[Len(wf_hist')][2]

FailureToDiagnose ==
    {"plan", "implement", "unit_test", "fix_issues", "integration_test"}

\* C22: every handler yields the next stage of the transition table.  When
\* the agent call returns: plan -> implement with status in_progress,
\* implement -> unit_test, fix_issues -> unit_test, integration_test -> done
\* with status closed, diagnose -> plan.  When it raises: plan, implement,
\* unit_test, fix_issues and integration_test -> diagnose, diagnose -> done
\* with status blocked.  Every applied transition awaited the agent once.
C22_TransitionTable ==
    [][/\ wf_hist' # wf_hist => HandlerAwaited
       /\ wf_applied' # wf_applied =>
              HandlerAwaited /\ wf_applied' = wf_applied + 1
       /\ (HandlerAwaited /\ ResultReturned(LastOutcome)) =>
              LET from == wf_issue.workflow_stage
                  to == wf_issue'.workflow_stage
              IN  /\ from = "plan" =>
                          to = "implement" /\ wf_issue'.status = "in_progress"
                  /\ from = "implement" =>
                          to = "unit_test" /\ wf_issue'.status = wf_issue.status
                  /\ from = "fix_issues" =>
                          to = "unit_test" /\ wf_issue'.status = wf_issue.status
                  /\ from = "integration_test" =>
                          to = "done" /\ wf_issue'.status = "closed"
                  /\ from = "diagnose" =>
                          to = "plan" /\ wf_issue'.status = wf_issue.status
       /\ (HandlerAwaited /\ LastOutcome = "fail") =>
              LET from == wf_issue.workflow_stage
                  to == wf_issue'.workflow_stage
              IN  /\ from \in FailureToDiagnose =>
                          to = "diagnose" /\ wf_issue'.status = wf_issue.status
                  /\ from = "diagnose" =>
                          to = "done" /\ wf_issue'.status = "blocked"]_vars

C22_Witness ==
    /\ wf_pc = "loop"
    /\ wf_hist = <<(<<"fix_issues", "ok">>)>>
    /\ wf_before.workflow_stage = "fix_issues"
    /\ wf_issue.workflow_stage = "unit_test"
    /\ wf_applied = 1

\* C23 as stated: in the unit_test stage the agent's test-result signal
\* decides the next stage: integration_test when the result reports passing
\* tests or carries no signal, fix_issues when it reports failing tests.
C23_TestSignalDecides ==
    [][(HandlerAwaited /\ wf_issue.workflow_stage = "unit_test") =>
          /\ LastOutcome = "ok" =>
                 wf_issue'.workflow_stage = "integration_test"
          /\ LastOutcome = "ok_tests_failed" =>
                 wf_issue'.workflow_stage = "fix_issues"]_vars

\* process_issue under the scheduler: a call that can take a step takes it.
SpecWFLive == SpecWF /\ WF_vars(NextWF)

\* Handlers a call may still await, given the snapshot it was entered with.
HandlerBudget ==
    IF Count(wf_entry) >= max_iterations
        THEN 0
        ELSE max_iterations - Count(wf_entry)

\* C24: process_issue always terminates (it returns or re-raises the
\* rate-limit condition), whatever the agent outcomes; it awaits at most
\* max_iterations minus the entry iteration_count handlers, and a call
\* that returns leaves workflow_stage = done, forced to blocked when the
\* budget ran out before a handler reached done.
C24_Terminates ==
    /\ <>(wf_pc \in {"returned", "raised"})
    /\ [](Len(wf_hist) <= HandlerBudget)
    /\ [](wf_pc = "returned" => wf_issue.workflow_stage = "done")
    /\ [][wf_iteration_limit =>
              /\ wf_issue'.status = "blocked"
              /\ wf_issue'.workflow_stage = "done"]_vars

C24_Witness ==
    /\ wf_pc = "returned"
    /\ wf_entry.iteration_count = 1
    /\ wf_entry.workflow_stage = "diagnose"
    /\ wf_hist = <<(<<"diagnose", "ok">>), (<<"plan", "fail">>)>>
    /\ wf_issue.status = "blocked"
    /\ wf_issue.workflow_stage = "done"
    /\ wf_issue.iteration_count = max_iterations

\* What lines 70-124 and 152-159 compute from a snapshot and the outcomes
\* the handlers meet, from the k-th on, with no observer installed.  A call
\* that needs an outcome the sequence does not hold is "unfinished".
RECURSIVE Replay(_, _, _)
Replay(issue, outcomes, k) ==
    IF issue.workflow_stage = "done" THEN [pc |-> "returned", issue |-> issue]
    ELSE IF IterationLimitReached(issue) \/ ~HasHandler(issue)
        THEN [pc |-> "returned", issue |-> ForceBlocked(issue)]
    ELSE IF k > Len(outcomes) THEN [pc |-> "unfinished", issue |-> issue]
    ELSE LET r == handler(issue.workflow_stage, issue, outcomes[k][2]) IN
         IF r.raised THEN [pc |-> "raised", issue |-> r.issue]
                     ELSE Replay(ApplyTransition(r), outcomes, k + 1)

ObserverFree == Replay(InitIterationCount(wf_entry), wf_hist, 1)

\* C25: the stage-change observer cannot influence the workflow.  Whether
\* it is absent, returns, or raises on every call, a call of process_issue
\* that found the agent available ends as the observer-free computation on
\* the same snapshot and the same agent outcomes ends: same exit, same
\* status, workflow_stage and iteration_count.
C25_ObserverNoInfluence ==
    /\ wf_pc \in {"final", "raised"} =>
           /\ ObserverFree.issue = wf_issue
           /\ ObserverFree.pc = IF wf_pc = "final" THEN "returned" ELSE "raised"
    /\ wf_pc = "returned" =>
           \/ wf_issue = ObserverFree.issue /\ ObserverFree.pc = "returned"
           \/ wf_issue = Unavailable(wf_entry) /\ wf_hist = <<>>

C25_Witness ==
    /\ wf_pc = "returned"
    /\ wf_observer = "raises"
    /\ wf_entry.workflow_stage = "implement"
    /\ wf_entry.iteration_count = 0
    /\ wf_hist = <<(<<"implement", "ok">>), (<<"unit_test", "ok">>),
                   (<<"integration_test", "ok">>)>>
    /\ wf_issue.status = "closed"
    /\ wf_issue.workflow_stage = "done"
    /\ wf_issue.iteration_count = 3

\* ------------------------------------------------ SpecWF: claim C39

\* The last handler awaited was integration_test and its agent call returned.
IntegrationSucceeded ==
    /\ wf_hist # <<>>
    /\ wf_hist[Len(wf_hist)][1] = "integration_test"
    /\ ResultReturned(wf_hist[Len(wf_hist)][2])

\* C39: process_issue returns status closed only if the integration_test
\* handler succeeded during the call or the snapshot was closed on entry;
\* the iteration cutoff, an unknown stage, a missing agent and a failing
\* diagnose leave status blocked.
C39_ClosedOnlyByIntegration ==
    [][/\ (wf_pc' = "returned" /\ wf_issue'.status = "closed") =>
              (IntegrationSucceeded' \/ wf_entry.status = "closed")
       /\ (wf_iteration_limit \/ wf_unknown_stage \/ wf_unavailable) =>
              wf_issue'.status = "blocked"
       /\ (HandlerAwaited /\ wf_issue.workflow_stage = "diagnose"
              /\ LastOutcome = "fail") =>
              wf_issue'.status = "blocked" /\ wf_issue'.workflow_stage = "done"
       /\ (wf_pc = "final" /\ wf_pc' = "returned") => wf_issue' = wf_issue]_vars

C39_Witness ==
    /\ wf_pc = "returned"
    /\ wf_entry.status = "open"
    /\ wf_entry.workflow_stage = "unit_test"
    /\ wf_hist = <<(<<"unit_test", "ok">>), (<<"integration_test", "ok">>)>>
    /\ wf_issue.status = "closed"
    /\ wf_issue.workflow_stage = "done"

\* ------------------------------------------------------ Spec: the daemon

Init ==
    /\ wf_issue = [id |-> 1, status |-> "open", workflow_stage |-> "plan",
                   iteration_count |-> 0]
    /\ wf_entry = wf_issue
    /\ wf_before = wf_issue
    /\ wf_pc = "start"
    /\ wf_hist = <<>>
    /\ wf_applied = 0
    /\ wf_db = <<>>
    /\ wf_observer = "returns"
    /\ \E s \in [IssueIds -> [status : {"open"},
                              workflow_stage : InitialStages,
                              iteration_count : {0}]] : DaemonStart(s)

\* Mutant: an exception of the fetch ends the scanner task.
scan_error_fatal == "ended"

\* except Exception as e: logger.error(...); await asyncio.sleep(10) -- the
\* scanner is back at `while self.running`.
scan_error_backoff == "backed_off"

\* Mutant: a failed worktree setup leaves _process_issue by its except block.
worktree_fallback_escalates(e, branch) ==
    [escapes |-> e.raised,
     path |-> IF e.raised THEN None ELSE e.path,
     head |-> head,
     ops |-> {}]

\* lines 294-313 around ensure_worktree_for_branch (result e): its exception
\* is logged and create_issue_branch / checkout_branch run on the primary
\* working copy, their exceptions logged too (a copy with unmerged paths
\* refuses the checkout); worktree_path stays None.
worktree_fallback(e, branch) ==
    [escapes |-> FALSE,
     path |-> IF e.raised THEN None ELSE e.path,
     head |-> IF e.raised /\ ~conflicted THEN branch ELSE head,
     ops |-> IF e.raised THEN {"checkout_branch"} ELSE {}]

\* Mutant: the except block logs the error and stores nothing.
mark_blocked_skipped(st, issue_id) == st

\* lines 393-396: issue_model.status = BLOCKED; update_issue(issue_model),
\* when get_issue finds the record.
mark_blocked(st, issue_id) ==
    IF issue_id \in DOMAIN st
        THEN [st EXCEPT ![issue_id].status = "blocked"]
        ELSE st

\* Mutant: the finally block leaves the issue in the registry.
Unregister_keeps(issue_id) == active_issues

\* del self.active_issues[issue_id], if it is there
Unregister(issue_id) ==
    [i \in DOMAIN active_issues \ {issue_id} |-> active_issues[i]]

\* `while self.running` of _worker, evaluated when _process_issue is over:
\* the task waits in issue_queue.get() again or ends.
LoopAgain == IF running THEN IdleWorker ELSE StoppedWorker("none")

\* The finally block of _process_issue for worker w, then the worker loop.
Cleanup(w) ==
    /\ active_issues' = Unregister(wk[w].issue.id)
    /\ worktrees' = IF wk[w].branch_name # None
                       THEN remove_worktree(wk[w].branch_name)
                       ELSE worktrees
    /\ unlocked_ops' = unlocked_ops \cup Unlocked({"worktree_remove"})
    /\ wk' = [wk EXCEPT ![w] = LoopAgain]

\* _scan_issues, one pass: the open issues that are not active are queued.
\* A worker that waits in get() takes a queued snapshot before the
\* scanner's sleep ends, so a pass starts with no worker waiting on a
\* non-empty queue.
\* When get_open_issues_by_priority raises, lines 240-242 log the error
\* and sleep ten seconds; the pass after that is the next step of this action.
_scan_issues ==
    /\ running
    /\ scanner # "ended"
    /\ ~(issue_queue # <<>> /\ \E w \in Workers : wk[w].pc = "idle")
    /\ \E fetch_ok \in BOOLEAN :
        IF fetch_ok
           THEN LET issues == get_open_issues_by_priority
                    new_issues ==
                        SelectSeq(issues, LAMBDA i : i \notin DOMAIN active_issues)
                IN /\ Len(issue_queue) + Len(new_issues) <= MaxQueue
                   /\ issue_queue' = issue_queue \o
                          [k \in 1 .. Len(new_issues) |-> Snapshot(new_issues[k])]
                   /\ scanner' = IF scanner = "backed_off" /\ new_issues # <<>>
                                    THEN "recovered" ELSE scanner
                   /\ faults' = faults
           ELSE /\ faults > 0
                /\ faults' = faults - 1
                /\ scanner' = scan_error_backoff
                /\ issue_queue' = issue_queue
    /\ UNCHANGED <<running, store, comments, active_issues, wk, cwd, git_vars,
                   throttled, cancelled>>
    /\ UNCHANGED wf_vars

\* The first SIGINT / SIGTERM: signal_handler schedules stop(), which sets
\* running = False.
stop ==
    /\ running
    /\ running' = FALSE
    /\ UNCHANGED <<store, comments, issue_queue, active_issues, wk, cwd, git_vars,
                   throttled, faults, cancelled, scanner>>
    /\ UNCHANGED wf_vars

\* _wait_for_shutdown: its loop sees running = False within a second and
\* its finally block cancels the scanner task and every worker task.
_wait_for_shutdown ==
    /\ ~running
    /\ ~cancelled
    /\ cancelled' = TRUE
    /\ scanner' = "ended"
    /\ UNCHANGED <<running, store, comments, issue_queue, active_issues, wk, cwd,
                   git_vars, throttled, faults>>
    /\ UNCHANGED wf_vars

\* A cancelled worker task is resumed with CancelledError at the await it
\* is suspended in. It is no Exception: only the finally blocks run (the
\* CWD restore inside process_issue, the cleanup of _process_issue).
_worker_cancelled(w) ==
    /\ cancelled
    /\ wk[w].pc # "stopped"
    /\ IF wk[w].pc = "idle"
          THEN UNCHANGED <<active_issues, worktrees, cwd>>
          ELSE /\ active_issues' = Unregister(wk[w].issue.id)
               /\ worktrees' = IF wk[w].branch_name # None
                                  THEN remove_worktree(wk[w].branch_name)
                                  ELSE worktrees
               /\ cwd' = RestoredCwd(w)
    /\ unlocked_ops' = unlocked_ops \cup Unlocked({"worktree_remove"})
    /\ wk' = [wk EXCEPT ![w] = StoppedWorker("cancelled")]
    /\ UNCHANGED <<running, store, comments, issue_queue, head, branches,
                   conflicted, throttled, faults, cancelled, scanner>>
    /\ UNCHANGED wf_vars

\* wait_for(issue_queue.get(), timeout=5.0) times out on the empty queue
\* and `while self.running` ends the worker task.
_worker_timeout(w) ==
    /\ ~cancelled
    /\ ~running
    /\ wk[w].pc = "idle"
    /\ issue_queue = <<>>
    /\ wk' = [wk EXCEPT ![w] = StoppedWorker("none")]
    /\ UNCHANGED <<running, store, comments, issue_queue, active_issues, cwd,
                   git_vars, throttled, faults, cancelled, scanner>>
    /\ UNCHANGED wf_vars

\* _worker: issue_queue.get() returns; _process_issue registers the issue
\* as active (line 281) and awaits db_manager.get_issue.
_worker(w) ==
    /\ ~cancelled
    /\ wk[w].pc = "idle"
    /\ issue_queue # <<>>
    /\ LET issue == Head(issue_queue) IN
        /\ issue_queue' = Tail(issue_queue)
        /\ active_issues' =
              [i \in DOMAIN active_issues \cup {issue.id} |->
                  IF i = issue.id THEN w ELSE active_issues[i]]
        /\ wk' = [wk EXCEPT ![w] = [IdleWorker EXCEPT !.pc = "get_issue",
                                                      !.issue = issue]]
    /\ UNCHANGED <<running, store, comments, cwd, git_vars, throttled, faults,
                   cancelled, scanner>>
    /\ UNCHANGED wf_vars

\* lines 283-330 up to the first await inside process_issue: the record is
\* reloaded and stored as in_progress (a missing record raises ValueError
\* into the except block); the worktree, or the in-place checkout when
\* ensure_worktree_for_branch raises; os.chdir; process_issue(issue) on the
\* queued snapshot up to its first agent call or its return.
_process_issue_start(w) ==
    /\ ~cancelled
    /\ wk[w].pc = "get_issue"
    /\ LET id == wk[w].issue.id IN
        IF id \notin DOMAIN store
           THEN /\ wk' = [wk EXCEPT ![w].pc = "failed", ![w].err = "not_found"]
                /\ UNCHANGED <<store, cwd, git_vars, faults>>
           ELSE \E add_ok \in BOOLEAN, available \in BOOLEAN :
                LET branch == branch_name(id)
                    e == ensure_worktree_for_branch(
                             branch, add_ok /\ ~AddRefused(branch))
                    fb == worktree_fallback(e, branch)
                    wt_ok == ~e.raised
                    path == fb.path
                    failed == (IF e.raised /\ ~AddRefused(branch) THEN 1 ELSE 0)
                              + (IF available THEN 0 ELSE 1)
                    step == process_issue(wk[w].issue, available)
                    in_progress == [store EXCEPT ![id].status = "in_progress"]
                IN
                /\ failed <= faults
                /\ faults' = faults - failed
                /\ worktrees' = e.worktrees
                /\ branches' = e.branches
                /\ head' = fb.head
                /\ conflicted' = conflicted
                /\ unlocked_ops' = unlocked_ops \cup Unlocked(e.ops \cup fb.ops)
                /\ IF fb.escapes
                      THEN /\ store' = in_progress
                           /\ cwd' = cwd
                           /\ wk' = [wk EXCEPT ![w].pc = "failed",
                                               ![w].err = "worktree",
                                               ![w].branch_name = branch]
                      ELSE
                   /\ store' = IF step.final_update
                                  THEN EngineUpdate(in_progress, step.issue)
                                  ELSE in_progress
                   /\ cwd' = IF wt_ok /\ step.pc # "returned" THEN path ELSE cwd
                   /\ wk' = [wk EXCEPT
                         ![w].pc = IF step.pc = "returned" THEN "persist"
                                                          ELSE step.pc,
                         ![w].issue = step.issue,
                         ![w].branch_name = branch,
                         ![w].worktree_path = path,
                         ![w].prev_cwd =
                             IF wt_ok /\ step.pc # "returned" THEN cwd ELSE None,
                         ![w].agent_cwd =
                             IF step.pc = "agent"
                                THEN (IF wt_ok THEN path ELSE cwd)
                                ELSE None]
    /\ UNCHANGED <<running, comments, issue_queue, active_issues, throttled,
                   cancelled, scanner>>
    /\ UNCHANGED wf_vars

\* The awaited agent call of the current stage ends. Its result is applied
\* (lines 109-124) and, after asyncio.sleep(1), the loop head starts the
\* next agent call in the process's current directory or makes the final
\* update. The rate-limit condition instead leaves process_issue, passes
\* the finally of line 326 and is caught by the except block of line 389.
_agent_returns(w) ==
    /\ ~cancelled
    /\ wk[w].pc = "agent"
    /\ \E cli \in AgentCliOutcomes :
        LET issue == wk[w].issue
            r == handler(issue.workflow_stage, issue, agent_call(cli))
            step == LoopHead(ApplyTransition(r))
        IN IF r.raised
              THEN /\ faults > 0
                   /\ faults' = faults - 1
                   /\ wk' = [wk EXCEPT ![w].pc = "failed",
                                       ![w].err = "rate_limit",
                                       ![w].issue = r.issue,
                                       ![w].prev_cwd = None,
                                       ![w].agent_cwd = None,
                                       ![w].last_cli = cli]
                   /\ cwd' = RestoredCwd(w)
                   /\ throttled' = TRUE
                   /\ store' = store
              ELSE /\ cli = "error" => faults > 0
                   /\ faults' = IF cli = "error" THEN faults - 1 ELSE faults
                   /\ wk' = [wk EXCEPT ![w].pc = step.pc,
                                       ![w].issue = step.issue,
                                       ![w].agent_cwd =
                                           IF step.pc = "agent" THEN cwd ELSE None,
                                       ![w].last_cli = cli]
                   /\ cwd' = cwd
                   /\ throttled' = throttled
                   /\ store' = IF step.final_update
                                  THEN EngineUpdate(store, step.issue)
                                  ELSE store
    /\ UNCHANGED <<running, comments, issue_queue, active_issues, git_vars,
                   cancelled, scanner>>
    /\ UNCHANGED wf_vars

\* process_issue has returned: the finally of line 326 restores the CWD;
\* lines 332-376 store status and stage and, for a closed issue, call
\* merge_issue_to_phase. A merge left in conflict goes to the agent-made
\* resolution, whose exception line 372 logs. An exception of the store
\* calls goes to the except block of line 389.
_process_issue_persist(w) ==
    /\ ~cancelled
    /\ wk[w].pc = "persist"
    /\ cwd' = RestoredCwd(w)
    /\ \E db_ok \in BOOLEAN :
        LET issue == wk[w].issue IN
        IF ~db_ok
           THEN \* get_issue / update_issue of lines 334-338 raises
                /\ faults > 0
                /\ faults' = faults - 1
                /\ wk' = [wk EXCEPT ![w].pc = "failed", ![w].err = "db_error",
                                    ![w].prev_cwd = None]
                /\ UNCHANGED <<store, active_issues, git_vars>>
           ELSE
        /\ store' = [store EXCEPT ![issue.id].status = issue.status,
                                  ![issue.id].workflow_stage = issue.workflow_stage]
        /\ IF issue.workflow_stage = "done" /\ issue.status = "closed"
              THEN \E clean \in BOOLEAN :
                   LET m == merge_branch(wk[w].branch_name, main, clean)
                       failed == IF m.result = "conflict" THEN 1 ELSE 0
                       resolution ==
                           IF m.result # "merged" /\ m.conflicted
                              THEN resolve_merge_conflicts.ops ELSE {}
                   IN /\ failed <= faults
                      /\ faults' = faults - failed
                      /\ head' = m.head
                      /\ branches' = m.branches
                      /\ conflicted' = m.conflicted
                      /\ unlocked_ops' =
                             unlocked_ops \cup Unlocked(m.ops \cup resolution)
                      /\ wk' = [wk EXCEPT ![w].pc = "comment",
                                          ![w].prev_cwd = None,
                                          ![w].merge = m.result]
                      /\ UNCHANGED <<active_issues, worktrees>>
           ELSE IF issue.workflow_stage = "done"
              THEN /\ wk' = [wk EXCEPT ![w].pc = "comment", ![w].prev_cwd = None]
                   /\ UNCHANGED <<active_issues, git_vars, faults>>
           ELSE /\ Cleanup(w)
                /\ UNCHANGED <<head, branches, conflicted, faults>>
    /\ UNCHANGED <<running, comments, issue_queue, throttled, cancelled,
                   scanner>>
    /\ UNCHANGED wf_vars

\* lines 378-387 and the finally block: the completion comment, cleanup.
\* add_comment is awaited outside any try of its own: when it raises, the
\* except block of line 389 is entered.
_process_issue_comment(w) ==
    /\ ~cancelled
    /\ wk[w].pc = "comment"
    /\ \E db_ok \in BOOLEAN :
        IF db_ok
           THEN /\ comments' = [comments EXCEPT
                                   ![wk[w].issue.id] = @ \cup {"completed"}]
                /\ Cleanup(w)
                /\ faults' = faults
           ELSE /\ faults > 0
                /\ faults' = faults - 1
                /\ wk' = [wk EXCEPT ![w].pc = "failed",
                                    ![w].err = "comment_error"]
                /\ UNCHANGED <<comments, active_issues, worktrees, unlocked_ops>>
    /\ UNCHANGED <<running, store, issue_queue, cwd, head, branches, conflicted,
                   throttled, cancelled, scanner>>
    /\ UNCHANGED wf_vars

\* lines 389-418: except Exception: the record is stored as blocked, the
\* failure comment is added, then the finally block.
_process_issue_failed(w) ==
    /\ ~cancelled
    /\ wk[w].pc = "failed"
    /\ LET id == wk[w].issue.id IN
        /\ store' = mark_blocked(store, id)
        /\ comments' = [comments EXCEPT ![id] = @ \cup {"failed"}]
    /\ Cleanup(w)
    /\ UNCHANGED <<running, issue_queue, cwd, head, branches, conflicted,
                   throttled, faults, cancelled, scanner>>
    /\ UNCHANGED wf_vars

\* The resume time the agent announced passes.
resume_time_passes ==
    /\ throttled
    /\ throttled' = FALSE
    /\ UNCHANGED <<running, store, comments, issue_queue, active_issues, wk, cwd,
                   git_vars, faults, cancelled, scanner>>
    /\ UNCHANGED wf_vars

Next ==
    \/ _scan_issues
    \/ stop
    \/ _wait_for_shutdown
    \/ \E w \in Workers : _worker(w)
    \/ \E w \in Workers : _worker_timeout(w)
    \/ \E w \in Workers : _worker_cancelled(w)
    \/ \E w \in Workers : _process_issue_start(w)
    \/ \E w \in Workers : _agent_returns(w)
    \/ \E w \in Workers : _process_issue_persist(w)
    \/ \E w \in Workers : _process_issue_comment(w)
    \/ \E w \in Workers : _process_issue_failed(w)
    \/ resume_time_passes

Spec == Init /\ [][Next]_vars

\* ------------------------------------------------- claims on the daemon

\* Worker w is inside _process_issue.
InFlight(w) == wk[w].pc \notin {"idle", "stopped"}

\* Worker w leaves the except block of _process_issue after a rate limit.
RateLimitHandled(w) ==
    /\ wk[w].pc = "failed"
    /\ wk[w].err = "rate_limit"
    /\ ~cancelled
    /\ ~InFlight(w)'

\* Worker w starts an awaited agent call in this step.
StartsAgentCall(w) ==
    /\ wk'[w].pc = "agent"
    /\ wk'[w] # wk[w]

\* C6 as stated: when the workflow run of a worker raises the rate-limit
\* condition, the worker does not persist status blocked and records no
\* failure comment; it puts the same issue back on the queue unchanged and
\* sets the process-wide cooldown deadline.
C6_RateLimitRequeued ==
    [][\A w \in Workers :
          RateLimitHandled(w) =>
              /\ store'[wk[w].issue.id].status # "blocked"
              /\ "failed" \notin comments'[wk[w].issue.id]
              /\ \E k \in 1 .. Len(issue_queue') : issue_queue'[k] = wk[w].issue
              /\ cooldown_deadline # None]_vars

\* C7 as stated: while a rate-limit resume time is announced and has not
\* passed, no worker starts a new workflow run or a new agent call.
C7_NoCallsDuringCooldown ==
    [][throttled => \A w \in Workers : ~StartsAgentCall(w)]_vars

\* C8 as stated: for every issue id and every interleaving of the scanner
\* and the workers, at most one worker is between registering the id as
\* active and the cleanup step of _process_issue for that id.
C8_OneWorkerPerIssue ==
    \A w1, w2 \in Workers :
        (w1 # w2 /\ InFlight(w1) /\ InFlight(w2))
            => wk[w1].issue.id # wk[w2].issue.id

\* C9 as stated: the registry of active issues does not contain an issue's
\* id at the moment a worker registers that issue, and does not contain it
\* once that issue's processing has ended (a dictionary holds each id at
\* most once).
C9_RegistryDiscipline ==
    [][\A w \in Workers :
          /\ (wk[w].pc = "idle" /\ InFlight(w)')
                => wk'[w].issue.id \notin DOMAIN active_issues
          /\ (InFlight(w) /\ ~InFlight(w)')
                => wk[w].issue.id \notin DOMAIN active_issues']_vars

\* C10 as stated: whenever a worker that acquired a worktree for its issue
\* has an agent call in progress, the directory the agent process runs in
\* is that issue's worktree, for every interleaving of the workers.
C10_AgentInWorktree ==
    \A w \in Workers :
        (wk[w].pc = "agent" /\ wk[w].worktree_path # None)
            => wk[w].agent_cwd = get_worktree_path(branch_name(wk[w].issue.id))

\* C11 as stated: after the first termination signal sets running = False,
\* every worker that is in the middle of processing an issue finishes that
\* processing before its loop exits; in-flight work is not cancelled.
C11_InFlightDrained ==
    [][\A w \in Workers :
          (InFlight(w) /\ wk'[w].pc = "stopped") => wk'[w].err # "cancelled"]_vars

\* C12 as stated: once running = False, no worker registers an issue it
\* had not already started; the issues queued at that moment stay unstarted.
C12_NoStartAfterStop ==
    [][~running =>
          \A w \in Workers : ~(wk[w].pc = "idle" /\ wk'[w].pc = "get_issue")]_vars

\* C13 as stated: in every reachable state of the store, after any
\* sequence of worker actions, an issue's status is closed or blocked if
\* and only if its workflow_stage is done.
C13_StoreTerminal ==
    \A i \in IssueIds :
        store[i].status \in {"closed", "blocked"}
            <=> store[i].workflow_stage = "done"

\* C14 as stated: a worker attempts a merge only when the workflow returned
\* workflow_stage done with status closed; when the processing of a run
\* that returned blocked / done ends, no merge was attempted and a comment
\* is recorded on the issue.
C14_MergeOnlyClosed ==
    [][\A w \in Workers :
          /\ (wk[w].merge = "none" /\ wk'[w].merge # "none")
                => (wk[w].issue.workflow_stage = "done"
                    /\ wk[w].issue.status = "closed")
          /\ (wk[w].pc = "comment" /\ wk[w].issue.status = "blocked"
              /\ ~InFlight(w)')
                => (wk[w].merge = "none"
                    /\ comments'[wk[w].issue.id] # {})]_vars

\* C15 as stated: when the merge of a closed issue's branch fails with
\* conflicts and the agent-made resolution also fails, the worker falls
\* back to auto_resolve_conflicts, which accepts the incoming side for
\* every conflicted path and commits.
C15_AutoResolveFallback ==
    [][\A w \in Workers :
          (wk[w].pc = "persist" /\ wk'[w].merge = "conflict")
              => conflicted' = auto_resolve_conflicts.conflicted]_vars

\* C16: ensure_worktree_for_branch is idempotent: every call that returns,
\* the first for a branch or a later one, returns the branch's one path
\* and leaves exactly one worktree registered for the branch; no branch
\* ever has more than one.
C16_WorktreeIdempotent ==
    [][/\ \A b \in IssueIds : worktrees'[b] <= 1
       /\ \A w \in Workers :
             (wk[w].pc = "get_issue" /\ wk'[w].worktree_path # None)
                 => /\ wk'[w].worktree_path =
                           get_worktree_path(branch_name(wk[w].issue.id))
                    /\ worktrees'[branch_name(wk[w].issue.id)] = 1]_vars

C16_Witness ==
    \E w1, w2 \in Workers :
        /\ w1 # w2
        /\ InFlight(w1)
        /\ InFlight(w2)
        /\ wk[w1].worktree_path # None
        /\ wk[w1].worktree_path = wk[w2].worktree_path
        /\ worktrees[wk[w1].branch_name] = 1

\* C17: when merge_branch hits a merge conflict it reports failure, leaves
\* the repository in the conflicted state (has_conflicts() is true
\* afterwards) and does not delete the source branch.
C17_ConflictLeftInPlace ==
    [][\A w \in Workers :
          (wk[w].pc = "persist" /\ wk'[w].merge = "conflict")
              => /\ conflicted'
                 /\ wk[w].branch_name \in branches'
                 /\ head' = main]_vars

C17_Witness ==
    \E w \in Workers :
        /\ wk[w].pc = "comment"
        /\ wk[w].merge = "conflict"
        /\ has_conflicts
        /\ wk[w].branch_name \in branches

C21_AgentFailureDiagnosed ==
    [][\A w \in Workers :
          (/\ wk[w].pc = "agent"
           /\ wk'[w].pc # "stopped"
           /\ wk'[w].issue.iteration_count = wk[w].issue.iteration_count + 1
           /\ wk'[w].last_cli = "error"
           /\ wk[w].issue.workflow_stage \in FailureToDiagnose
           /\ wk[w].issue.iteration_count + 1 < max_iterations)
              => wk'[w].issue.workflow_stage = "diagnose"]_vars

\* C26 as stated: the worker runs the state machine on the record it has
\* just reloaded from the store, not on the snapshot that was queued: the
\* stage and the iteration count the workflow starts from are the store's.
C26_ReloadedRecord ==
    [][\A w \in Workers :
          (wk[w].pc = "get_issue" /\ wk'[w].pc \in {"agent", "persist"})
              => LET id == wk[w].issue.id
                 IN /\ wk[w].issue.workflow_stage = store[id].workflow_stage
                    /\ wk[w].issue.iteration_count = store[id].iteration_count]_vars

\* C27 as stated: while the workflow of an issue runs in fallback mode (no
\* worktree, the issue branch checked out in the primary working copy), no
\* other worker's checkout or merge changes the branch the primary working
\* copy has checked out.
C27_FallbackHeadStable ==
    [][\A w \in Workers :
          (/\ wk[w].pc = "agent"
           /\ wk[w].worktree_path = None
           /\ wk'[w].pc = "agent")
              => head' = head]_vars

\* C28: when ensure_worktree_for_branch fails, the worker still runs the
\* workflow on the queued issue: it goes on exactly as process_issue
\* prescribes, and the store holds in_progress unless the workflow's own
\* final update wrote its result; the failed setup by itself neither marks
\* the issue blocked nor skips it.
C28_FallbackStillRuns ==
    [][\A w \in Workers :
          (/\ wk[w].pc = "get_issue"
           /\ wk'[w].pc \notin {"get_issue", "stopped"}
           /\ wk'[w].branch_name # None
           /\ wk'[w].worktree_path = None)
              => \E available \in BOOLEAN :
                    LET step == process_issue(wk[w].issue, available)
                        id == wk[w].issue.id
                    IN /\ wk'[w].issue = step.issue
                       /\ wk'[w].pc = IF step.pc = "returned" THEN "persist"
                                                            ELSE step.pc
                       /\ store'[id].status =
                              IF step.final_update THEN step.issue.status
                                                   ELSE "in_progress"]_vars

C28_Witness ==
    \E w \in Workers :
        /\ wk[w].pc = "agent"
        /\ wk[w].branch_name # None
        /\ wk[w].worktree_path = None
        /\ wk[w].agent_cwd = project_root
        /\ head = wk[w].branch_name
        /\ store[wk[w].issue.id].status = "in_progress"

C30_ScannerSurvivesFetchError ==
    [][/\ running' => scanner' # "ended"
       /\ (scanner # "backed_off" /\ scanner' = "backed_off") =>
              /\ running'
              /\ issue_queue' = issue_queue
              /\ wk' = wk
              /\ store' = store
       /\ (scanner = "backed_off" /\ scanner' = "recovered") =>
              Len(issue_queue') > Len(issue_queue)]_vars

C30_Witness ==
    /\ running
    /\ scanner = "recovered"
    /\ faults = 0
    /\ issue_queue # <<>>

\* --------------------------------------- claims C31 .. C38, C40

\* The ids of the issues the workers are processing.
BeingProcessed == {wk[w].issue.id : w \in {v \in Workers : InFlight(v)}}

\* C31: at any time at most W issues are being processed, W the number of
\* workers: every worker holds at most the one issue it dequeued, and the
\* active-issue registry holds only ids that are being processed, never
\* more than W of them.
C31_AtMostWActive ==
    /\ Cardinality(BeingProcessed) <= NumWorkers
    /\ Cardinality(DOMAIN active_issues) <= NumWorkers
    /\ DOMAIN active_issues \subseteq BeingProcessed

C31_Witness ==
    /\ Cardinality(DOMAIN active_issues) = NumWorkers
    /\ \A w \in Workers : wk[w].pc = "agent"
    /\ issue_queue # <<>>
    /\ Head(issue_queue).id \notin DOMAIN active_issues

\* C32 as stated: the issue queue never holds two entries for the same
\* issue id.
C32_QueueNoDuplicates ==
    \A j, k \in 1 .. Len(issue_queue) :
        j # k => issue_queue[j].id # issue_queue[k].id

\* C33 as stated: if the record reloaded after the dequeue already has
\* status closed or blocked, the worker does not set it back to in_progress
\* and does not run the workflow for it.
C33_FinishedNotReprocessed ==
    [][\A w \in Workers :
          (/\ wk[w].pc = "get_issue"
           /\ wk'[w].pc \notin {"get_issue", "stopped"}
           /\ store[wk[w].issue.id].status \in {"closed", "blocked"})
              => /\ store'[wk[w].issue.id].status = store[wk[w].issue.id].status
                 /\ wk'[w].pc \notin {"agent", "persist"}]_vars

\* C34 as stated: once a worker has stored status closed for an issue in a
\* processing run, no later step of the run, the failure handler for an
\* error of the completion comment included, overwrites it with blocked.
C34_ClosedNotOverwritten ==
    [][\A w \in Workers :
          (/\ wk[w].pc = "failed"
           /\ wk[w].err = "comment_error"
           /\ wk[w].issue.status = "closed"
           /\ wk'[w].pc # "failed")
              => store'[wk[w].issue.id].status # "blocked"]_vars

\* C35 as stated: remove_worktree for a branch is executed only when no
\* worker has a workflow run in progress inside that branch's worktree.
C35_WorktreeNotRemovedInUse ==
    [][\A b \in IssueIds :
          (worktrees[b] > 0 /\ worktrees'[b] = 0)
              => ~\E w \in Workers :
                     /\ wk'[w].pc = "agent"
                     /\ wk'[w].worktree_path = get_worktree_path(b)]_vars

\* C36 as stated: has_conflicts() is false whenever no worker is between
\* starting a merge and concluding its conflict handling.
C36_NoConflictLeft ==
    (\A w \in Workers : wk[w].pc # "persist") => ~has_conflicts

\* Worker w is inside workflow_engine.process_issue, or has not yet passed
\* the finally block that follows it.
RunningWorkflow(w) == wk[w].pc \in {"agent", "persist"}

\* C38 as stated: whenever no worker is running a workflow, the process
\* working directory is the directory the daemon was started in.
C38_CwdRestored ==
    (\A w \in Workers : ~RunningWorkflow(w)) => cwd = project_root

\* C40 as stated: merge_branch returns False only if the merge itself did
\* not complete: whenever the call has merged the source into the target,
\* its result is True, whether or not the source branch could be deleted.
C40_MergedMeansTrue ==
    [][\A w \in Workers :
          (/\ wk[w].pc = "persist"
           /\ wk'[w].pc = "comment"
           /\ wk'[w].merge # "none")
              => \A clean \in BOOLEAN :
                    LET m == merge_branch(wk[w].branch_name, main, clean)
                    IN (m.result = wk'[w].merge /\ m.merge_done)
                           => wk'[w].merge = "merged"]_vars

\* ------------------------------------------------------- claim C37

\* The steps of worker task w.
WorkerStep(w) ==
    \/ _worker(w)
    \/ _worker_timeout(w)
    \/ _worker_cancelled(w)
    \/ _process_issue_start(w)
    \/ _agent_returns(w)
    \/ _process_issue_persist(w)
    \/ _process_issue_comment(w)
    \/ _process_issue_failed(w)

\* The daemon on a fair event loop: the scanner task and every worker task
\* that can take a step eventually take it.
SpecLive ==
    /\ Spec
    /\ WF_vars(_scan_issues)
    /\ \A w \in Workers : WF_vars(WorkerStep(w))

\* No call of the store has raised into a worker's except block.
StoreSucceeds ==
    \A w \in Workers : wk[w].err \notin {"db_error", "comment_error"}

\* The record of issue i is finished: done, and closed or blocked.
Finished(i) ==
    /\ store[i].workflow_stage = "done"
    /\ store[i].status \in {"closed", "blocked"}

\* C37 as stated: while the daemon keeps running, on a fair event loop and
\* with the store's operations succeeding, every issue that is open in the
\* store is eventually stored with workflow_stage done and status closed
\* or blocked.
C37_Progress ==
    ([]running /\ []StoreSucceeds) =>
        \A i \in IssueIds : (store[i].status = "open") ~> Finished(i)

====
